---- MODULE Spec2Model ----
(***************************************************************************)
(* A model of linter.py, the Flow plugin for SublimeLinter 3.              *)
(*                                                                         *)
(* Python values are written as follows.  None is the empty tuple and a    *)
(* value x that may also be None is the one-element tuple <<x>>.  An       *)
(* object is a record of its attributes: the attribute exists exactly when *)
(* its name is in the DOMAIN of the record, so an object whose constructor *)
(* raised half way has fewer fields.  A list is a sequence; list position  *)
(* idx of Python is position idx + 1 of the sequence.                      *)
(*                                                                         *)
(* The editor (sublime) is outside the repository.  A view is identified   *)
(* by the path of its file, a text point by its (row, col) pair and a      *)
(* piece of text by the view and the two points it lies between.           *)
(***************************************************************************)
EXTENDS Integers, Sequences, FiniteSets, TLC

VARIABLES
    lints,          \* the lints that may happen in this run: <<output of flow, file linted>>
    views,          \* path -> the editor's view of that file
    sessions,       \* every Flow_error object made so far, in order of creation
    last_instance,  \* Flow_error.last_instance
    barriers,       \* per Flow_error, the closures on_view_ready has made
    panel,          \* the quick panel on screen, or None
    nav,            \* the position the last handler had Flow_msg.focus open, or None
    call,           \* SpecResolver: the object get_error is called on
    ret             \* SpecResolver: what get_error returned

vars == <<lints, views, sessions, last_instance, barriers, panel, nav, call, ret>>

(***************************************************************************)
(* Bounds.                                                                 *)
(***************************************************************************)
MaxGroups == 2      \* groups in a payload (SpecResolver)
MaxMsgs == 3        \* messages in a group (SpecResolver)
MaxSessions == 3    \* Flow_error objects made in a run of Spec
MaxLints == 2       \* Flow_error objects made in a run of SpecBarrier and SpecBinder
MaxCoord == 2       \* largest line or column of a message (SpecBinder)

Files == {"a.js", "b.js", "c.js"}

None == <<>>
Some(x) == <<x>>
Val(o) == o[1]

(***************************************************************************)
(* The payload.  A raw message is one element of error['message'].         *)
(***************************************************************************)
RawMessage(path, line, start, endline, end, descr) ==
    [path |-> path, line |-> line, start |-> start,
     endline |-> endline, end |-> end, descr |-> descr]

\* what sublime.decode_value(output) does: a ValueError, or the decoded value
Undecodable == [decodes |-> FALSE]
Json(value) == [decodes |-> TRUE, value |-> value]

Group(message) == [message |-> message]
Failed(errors) == [passed |-> FALSE, errors |-> errors]

MsgA == RawMessage("a.js", 1, 2, 1, 4, "d1")
MsgB == RawMessage("b.js", 3, 1, 4, 2, "d2")
MsgC == RawMessage("c.js", 2, 2, 2, 3, "d3")

\* The outputs of flow that are given by their text: not JSON, JSON of another
\* shape, no error, an error within one file, an error that goes on in a second
\* file and one that goes through three files
Texts ==
    [t \in {"not json", "{errors}", "{passed:false}", "{passed:true}",
            "{passed:false,errors:[[A]]}", "{passed:false,errors:[[A,B]]}",
            "{passed:false,errors:[[A,B,C]]}"} |->
        CASE t = "not json" -> Undecodable
          [] t = "{errors}" -> Json([errors |-> <<>>])
          [] t = "{passed:false}" -> Json([passed |-> FALSE])
          [] t = "{passed:true}" -> Json([passed |-> TRUE])
          [] t = "{passed:false,errors:[[A]]}" -> Json(Failed(<<Group(<<MsgA>>)>>))
          [] t = "{passed:false,errors:[[A,B]]}" -> Json(Failed(<<Group(<<MsgA, MsgB>>)>>))
          [] t = "{passed:false,errors:[[A,B,C]]}" ->
                 Json(Failed(<<Group(<<MsgA, MsgB, MsgC>>)>>))]

\* An output of flow: [text |-> t] for one of Texts, [value |-> v] for the text
\* that decodes to v
Text(t) == [text |-> t]
TextOf(value) == [value |-> value]

\* sublime.decode_value(output)
decode_value(output) ==
    IF "text" \in DOMAIN output THEN Texts[output.text] ELSE Json(output.value)

RECURSIVE SeqsUpTo(_, _)
\* the sequences over S of length 0..n
SeqsUpTo(S, n) ==
    IF n = 0 THEN {<<>>}
    ELSE LET shorter == SeqsUpTo(S, n - 1)
         IN  shorter \cup {Append(q, x) : q \in {r \in shorter : Len(r) = n - 1}, x \in S}

(***************************************************************************)
(* Flow_error.get_error                                                    *)
(***************************************************************************)
RECURSIVE ScanMessages_NoEntryPriority(_, _, _, _, _)
\* mutant: an entry error does not return at once, the first mention wins
ScanMessages_NoEntryPriority(file, error, p, none_entry_error, index) ==
    IF p > Len(error.message)
    THEN [returned |-> FALSE, error |-> none_entry_error, index |-> index]
    ELSE IF file = error.message[p].path /\ none_entry_error = None
         THEN ScanMessages_NoEntryPriority(file, error, p + 1, Some(error), Some(p - 1))
         ELSE ScanMessages_NoEntryPriority(file, error, p + 1, none_entry_error, index)

RECURSIVE ScanMessages_LastMentionWins(_, _, _, _, _)
\* mutant: the guard `if not none_entry_error` is missing
ScanMessages_LastMentionWins(file, error, p, none_entry_error, index) ==
    IF p > Len(error.message)
    THEN [returned |-> FALSE, error |-> none_entry_error, index |-> index]
    ELSE LET idx == p - 1
         IN  IF file = error.message[p].path
             THEN IF idx # 0
                  THEN ScanMessages_LastMentionWins(file, error, p + 1, Some(error), Some(idx))
                  ELSE [returned |-> TRUE, error |-> Some(error), index |-> Some(idx)]
             ELSE ScanMessages_LastMentionWins(file, error, p + 1, none_entry_error, index)

RECURSIVE ScanMessages(_, _, _, _, _)
\* the inner loop, `for idx, msg in enumerate(error['message'])`, from position p on
ScanMessages(file, error, p, none_entry_error, index) ==
    IF p > Len(error.message)
    THEN [returned |-> FALSE, error |-> none_entry_error, index |-> index]
    ELSE LET idx == p - 1
             error_file == error.message[p].path
         IN  IF file = error_file
             THEN IF idx # 0
                  THEN IF none_entry_error = None
                       THEN ScanMessages(file, error, p + 1, Some(error), Some(idx))
                       ELSE ScanMessages(file, error, p + 1, none_entry_error, index)
                  ELSE [returned |-> TRUE, error |-> Some(error), index |-> Some(idx)]
             ELSE ScanMessages(file, error, p + 1, none_entry_error, index)

RECURSIVE ScanErrors(_, _, _, _, _)
\* the outer loop, `for error in self.output['errors']`, from position g on
ScanErrors(file, errors, g, none_entry_error, index) ==
    IF g > Len(errors)
    THEN <<none_entry_error, index>>
    ELSE LET r == ScanMessages(file, errors[g], 1, none_entry_error, index)
         IN  IF r.returned
             THEN <<r.error, r.index>>
             ELSE ScanErrors(file, errors, g + 1, r.error, r.index)

\* mutant: the index returned is that of the first message of the group
get_error_IndexZero(self) ==
    <<ScanErrors(self.file, self.output.errors, 1, None, None)[1], Some(0)>>

get_error(self) == ScanErrors(self.file, self.output.errors, 1, None, None)

(***************************************************************************)
(* The editor.  World is the part of the state a handler reads and writes  *)
(* as it runs; a handler is a chain of world-to-world steps.  `raised` is  *)
(* set when an exception leaves the constructor, `nav` when the handler    *)
(* asks the window to go to a position.                                    *)
(***************************************************************************)
World ==
    [views |-> views, sessions |-> sessions, last_instance |-> last_instance,
     barriers |-> barriers, panel |-> panel, nav |-> None, raised |-> FALSE]

ClosedView == [open |-> FALSE, loading |-> FALSE, regions |-> <<>>]
LoadedView == [open |-> TRUE, loading |-> FALSE, regions |-> <<>>]
\* what window.open_file returns for a file that was not open: a view still loading
OpeningView == [open |-> TRUE, loading |-> TRUE, regions |-> <<>>]

\* view.text_point(row, col)
text_point(row, col) == <<row, col>>

\* view.substr of the text between two points of the view, with whether the
\* view had finished loading when it was read
substr(w, view, a, b) ==
    [view |-> view, a |-> a, b |-> b, loaded |-> ~w.views[view].loading]

\* view.scope_name(0).split(' ') for the view of a file: b.js is shown with a
\* syntax other than JavaScript (as the text of an HTML file is, which flow
\* lints too), the other files with JavaScript
scope_name(view) ==
    IF view = "b.js" THEN <<"text.html.basic">> ELSE <<"source.js">>

\* mutant: the regions of every view are erased
clear_view_EveryView(w, view) ==
    [w EXCEPT !.views = [v \in DOMAIN @ |-> [@[v] EXCEPT !.regions = <<>>]]]

\* clear_view(view): view.erase_regions(FLOW_REGION_KEY)
clear_view(w, view) == [w EXCEPT !.views[view].regions = <<>>]

(***************************************************************************)
(* Flow_msg                                                                *)
(***************************************************************************)
\* mutant: the end column is decremented like the other three coordinates
Flow_msg_EndDecremented(msg) ==
    [line |-> msg.line - 1, col |-> msg.start - 1,
     line_end |-> msg.endline - 1, col_end |-> msg.end - 1,
     file |-> msg.path, message |-> msg.descr, view |-> msg.path]

\* mutant: the start column is kept 1-based
Flow_msg_StartKept(msg) ==
    [line |-> msg.line - 1, col |-> msg.start,
     line_end |-> msg.endline - 1, col_end |-> msg.end,
     file |-> msg.path, message |-> msg.descr, view |-> msg.path]

\* Flow_msg.__init__: the attributes; the view is the one get_view returns
Flow_msg(msg) ==
    [line |-> msg.line - 1, col |-> msg.start - 1,
     line_end |-> msg.endline - 1, col_end |-> msg.end,
     file |-> msg.path, message |-> msg.descr, view |-> msg.path]

\* Flow_msg.get_view: the effect on the window
get_view(w, self) ==
    IF w.views[self.file].open
    THEN w
    ELSE [w EXCEPT !.views[self.file] = OpeningView]

\* Flow_msg.region
region(self) ==
    [a |-> text_point(self.line, self.col),
     b |-> text_point(self.line_end, self.col_end)]

\* Flow_msg.highlight of message i of session s; `by` remembers who rendered the region
highlight_msg(w, s, i) ==
    LET self == w.sessions[s].msgs[i]
        regions == w.views[self.view].regions
        r == region(self)
    IN  [w EXCEPT !.views[self.view].regions =
                      Append(regions, [a |-> r.a, b |-> r.b, by |-> s])]

ARROW == "->"
CROSS_FILE == "~ "

\* mutant: the marker goes to the messages of the triggering file
report_MarksSameFile(w, self, base_file) ==
    LET point == text_point(self.line, self.col)
        code == <<substr(w, self.view, text_point(self.line, 0), point),
                  ARROW,
                  substr(w, self.view, region(self).a, region(self).b)>>
        message == IF self.file # base_file THEN self.message
                   ELSE CROSS_FILE \o self.message
    IN  <<code, message>>

\* Flow_msg.report
report(w, self, base_file) ==
    LET point == text_point(self.line, self.col)
        code == <<substr(w, self.view, text_point(self.line, 0), point),
                  ARROW,
                  substr(w, self.view, region(self).a, region(self).b)>>
        message == IF self.file = base_file THEN self.message
                   ELSE CROSS_FILE \o self.message
    IN  <<code, message>>

\* mutant: the column is not passed on
focus_LineOnly(w, self) ==
    LET opened == IF w.views[self.file].open THEN w
                  ELSE [w EXCEPT !.views[self.file] = OpeningView]
    IN  [opened EXCEPT !.nav = Some([file |-> self.file, line |-> self.line, col |-> 0])]

\* Flow_msg.focus: the file, line and col put into the name given to
\* window.open_file; a file that is not open starts loading
focus(w, self) ==
    LET opened == IF w.views[self.file].open THEN w
                  ELSE [w EXCEPT !.views[self.file] = OpeningView]
    IN  [opened EXCEPT !.nav = Some([file |-> self.file, line |-> self.line, col |-> self.col])]

(***************************************************************************)
(* Flow_error                                                              *)
(***************************************************************************)
\* f with key k set to v (a new attribute, or a new closure of a session)
With(f, k, v) == [x \in DOMAIN f \cup {k} |-> IF x = k THEN v ELSE f[x]]

RECURSIVE ClearFrom(_, _, _)
\* `for flow_msg in self.msgs: flow_msg.clear()`, from position p on
ClearFrom(w, msgs, p) ==
    IF p > Len(msgs) THEN w
    ELSE ClearFrom(clear_view(w, msgs[p].view), msgs, p + 1)

\* mutant: the views of all files are cleared, not those of the messages
clear_EveryView(w, s) ==
    IF "msgs" \in DOMAIN w.sessions[s]
    THEN [w EXCEPT !.views = [v \in DOMAIN @ |-> [@[v] EXCEPT !.regions = <<>>]]]
    ELSE [w EXCEPT !.raised = TRUE]

\* Flow_error.clear; an object without msgs raises AttributeError
clear(w, s) ==
    IF "msgs" \in DOMAIN w.sessions[s]
    THEN ClearFrom(w, w.sessions[s].msgs, 1)
    ELSE [w EXCEPT !.raised = TRUE]

RECURSIVE BindFrom(_, _, _)
\* the views `[Flow_msg(msg) for msg in error['message']]` opens, from position p on
BindFrom(w, message, p) ==
    IF p > Len(message) THEN w
    ELSE BindFrom(get_view(w, Flow_msg(message[p])), message, p + 1)

\* Flow_error.__init__ from `self.output = json_output` on, for the new object s
InitBody(w, s) ==
    LET self == w.sessions[s]
    IN  IF "passed" \notin DOMAIN self.output
        THEN [w EXCEPT !.raised = TRUE]                      \* KeyError, line 34
        ELSE IF ~self.output.passed
        THEN IF "errors" \notin DOMAIN self.output
             THEN [w EXCEPT !.raised = TRUE]                 \* KeyError, line 52
             ELSE LET got == get_error(self)
                      error == got[1]
                      indexed == With(self, "index", got[2])
                  IN  IF error # None
                      THEN LET message == Val(error).message
                               bound == BindFrom(w, message, 1)
                               msgs == [i \in 1..Len(message) |-> Flow_msg(message[i])]
                           IN  [bound EXCEPT !.sessions[s] = With(indexed, "msgs", msgs)]
                      ELSE [w EXCEPT !.sessions[s] = With(indexed, "msgs", <<>>)]
        ELSE [w EXCEPT !.sessions[s] = With(self, "msgs", <<>>)]

\* mutant: the previous instance is not cleared
Flow_error_NoClear(w, json_output, file) ==
    LET s == Len(w.sessions) + 1
        made == [w EXCEPT !.sessions = Append(@, [output |-> json_output, file |-> file]),
                          !.barriers = Append(@, <<>>),
                          !.last_instance = Some(s)]
    IN  InitBody(made, s)

\* Flow_error.__init__
Flow_error(w, json_output, file) ==
    LET cleared == IF w.last_instance # None THEN clear(w, Val(w.last_instance)) ELSE w
        s == Len(w.sessions) + 1
        made == [cleared EXCEPT !.sessions = Append(@, [output |-> json_output, file |-> file]),
                                !.barriers = Append(@, <<>>),
                                !.last_instance = Some(s)]
    IN  IF cleared.raised THEN cleared ELSE InitBody(made, s)

RECURSIVE HighlightFrom(_, _, _)
\* `[flow_msg.highlight() for flow_msg in self.msgs]`, from position p on
HighlightFrom(w, s, p) ==
    IF p > Len(w.sessions[s].msgs) THEN w
    ELSE HighlightFrom(highlight_msg(w, s, p), s, p + 1)

\* the callback handed to on_view_ready by show_report (the quick panel) or by
\* highlight; `called` counts its calls
callback(w, s, k) ==
    LET self == w.sessions[s]
        counted == [w EXCEPT !.barriers[s][k].called = @ + 1]
    IN  IF k = "show_report"
        THEN [counted EXCEPT !.panel = Some([session |-> s,
                                             items |-> w.barriers[s][k].report,
                                             selected_index |-> self.index])]
        ELSE HighlightFrom(counted, s, 1)

\* mutant: `rest or callback()` without the test
check_Always(w, s, k) ==
    callback([w EXCEPT !.barriers[s][k].rest = @ - 1], s, k)

\* the closure `check` of Flow_error.on_view_ready
check(w, s, k) ==
    LET rest == w.barriers[s][k].rest - 1
        counted == [w EXCEPT !.barriers[s][k].rest = rest]
    IN  IF rest = 0 THEN callback(counted, s, k) ELSE counted

\* mutant: a view found loading is not asked again
msg_on_view_ready_NoTimer(w, s, k, i) ==
    LET self == w.sessions[s].msgs[i]
    IN  IF w.views[self.view].loading
        THEN w
        ELSE check([w EXCEPT !.barriers[s][k].seen = @ \cup {i}], s, k)

\* Flow_msg.on_view_ready of message i with the callback `check` of closure k of
\* session s: a timer while the view is loading; `seen` remembers the messages
\* whose view was found not loading
msg_on_view_ready(w, s, k, i) ==
    LET self == w.sessions[s].msgs[i]
    IN  IF w.views[self.view].loading
        THEN [w EXCEPT !.barriers[s][k].timers = @ \cup {i}]
        ELSE check([w EXCEPT !.barriers[s][k].seen = @ \cup {i}], s, k)

RECURSIVE ReadyFrom(_, _, _, _)
\* `for flow_msg in self.msgs: flow_msg.on_view_ready(check)`, from position p on
ReadyFrom(w, s, k, p) ==
    IF p > Len(w.sessions[s].msgs) THEN w
    ELSE ReadyFrom(msg_on_view_ready(w, s, k, p), s, k, p + 1)

\* mutant: a Session without messages has its callback run at once
on_view_ready_CallsWhenEmpty(w, s, k, closure) ==
    LET rest == Len(w.sessions[s].msgs)
        fresh == [rest |-> rest, timers |-> {}, seen |-> {},
                  called |-> IF rest = 0 THEN 1 ELSE 0, report |-> closure]
        armed == ReadyFrom([w EXCEPT !.barriers[s] = With(@, k, fresh)], s, k, 1)
    IN  IF rest = 0 /\ k = "show_report"
        THEN [armed EXCEPT !.panel = Some([session |-> s, items |-> closure,
                                           selected_index |-> None])]
        ELSE armed

\* Flow_error.on_view_ready; closure is what the callback has captured
on_view_ready(w, s, k, closure) ==
    LET rest == Len(w.sessions[s].msgs)
        fresh == [rest |-> rest, timers |-> {}, seen |-> {}, called |-> 0,
                  report |-> closure]
    IN  ReadyFrom([w EXCEPT !.barriers[s] = With(@, k, fresh)], s, k, 1)

\* Flow_error.show_report
show_report(w, s) ==
    LET self == w.sessions[s]
        rows == [i \in 1..Len(self.msgs) |-> report(w, self.msgs[i], self.file)]
    IN  on_view_ready(w, s, "show_report", rows)

\* Flow_error.highlight
highlight(w, s) == on_view_ready(w, s, "highlight", <<>>)

(***************************************************************************)
(* The handlers.                                                           *)
(***************************************************************************)
\* The Flow_error objects something still refers to: Flow_error.last_instance,
\* the lambda of a pending timer, or on_select of the quick panel on screen.
Referenced(w) ==
    {s \in 1..Len(w.sessions) :
        \/ w.last_instance = Some(s)
        \/ \E k \in DOMAIN w.barriers[s] : w.barriers[s][k].timers # {}
        \/ w.panel # None /\ Val(w.panel).session = s}

\* what is left of an object nothing refers to
Collected == [collected |-> TRUE]

\* the state a handler leaves: the objects nothing refers to are gone
Commit(w) ==
    /\ views' = w.views
    /\ sessions' = [s \in 1..Len(w.sessions) |->
                       IF s \in Referenced(w) THEN w.sessions[s] ELSE Collected]
    /\ last_instance' = w.last_instance
    /\ barriers' = [s \in 1..Len(w.sessions) |->
                       IF s \in Referenced(w) THEN w.barriers[s] ELSE <<>>]
    /\ panel' = w.panel
    /\ nav' = w.nav

\* Flow.find_errors(output) for the view of file
find_errors(output, file) ==
    /\ <<output, file>> \in lints
    /\ views[file].open /\ ~views[file].loading
    /\ IF ~decode_value(output).decodes
       THEN Commit(World)                                     \* except ValueError
       ELSE LET made == Flow_error(World, decode_value(output).value, file)
            IN  IF made.raised
                THEN Commit(made)
                ELSE Commit(highlight(show_report(made, Val(made.last_instance)),
                                      Val(made.last_instance)))
    /\ UNCHANGED <<lints, call, ret>>

\* the editor finishes loading a view
ViewLoaded(view) ==
    /\ views[view].open /\ views[view].loading
    /\ views' = [views EXCEPT ![view].loading = FALSE]
    /\ UNCHANGED <<lints, sessions, last_instance, barriers, panel, nav, call, ret>>

\* the timer of sublime.set_timeout_async(lambda: self.on_view_ready(callback), 50)
PollTimer(s, k, i) ==
    /\ s \in 1..Len(sessions)
    /\ k \in DOMAIN barriers[s]
    /\ i \in barriers[s][k].timers
    /\ Commit(msg_on_view_ready([World EXCEPT !.barriers[s][k].timers = @ \ {i}], s, k, i))
    /\ UNCHANGED <<lints, call, ret>>

\* Clear.is_enabled(view).  sublime_plugin calls the on_* methods of an
\* EventListener for every view and never its is_enabled, so no handler of the
\* model uses it.
is_enabled(view) ==
    \E j \in DOMAIN scope_name(view) : scope_name(view)[j] = "source.js"

\* Clear.on_modified_async(view)
on_modified_async(view) ==
    /\ views[view].open
    /\ Commit(clear_view(World, view))
    /\ UNCHANGED <<lints, call, ret>>

\* on_select(index) of the quick panel show_report opened; the panel closes
on_select(index) ==
    /\ panel # None
    /\ index \in -1..(Len(Val(panel).items) - 1)
    /\ LET closed == [World EXCEPT !.panel = None]
           self == sessions[Val(panel).session]
       IN  IF index >= 0
           THEN Commit(focus(closed, self.msgs[index + 1]))
           ELSE Commit(closed)
    /\ UNCHANGED <<lints, call, ret>>

\* get_error called on the object `call` (SpecResolver)
RunGetError ==
    /\ call # None /\ ret = None
    /\ ret' = Some(get_error(Val(call)))
    /\ UNCHANGED <<lints, views, sessions, last_instance, barriers, panel, nav, call>>

(***************************************************************************)
(* Specifications.                                                         *)
(***************************************************************************)
\* Spec: the outputs of flow and the files linted
ScenarioOutputs ==
    {Text(t) : t \in {"not json", "{errors}", "{passed:false}", "{passed:true}",
                      "{passed:false,errors:[[A]]}", "{passed:false,errors:[[A,B]]}"}}
ScenarioFiles == {"a.js", "b.js"}

\* SpecBarrier: an error that goes through three files
BarrierOutputs == {Text("{passed:false,errors:[[A,B,C]]}")}

\* SpecRepeat: an error whose group has the same message twice
RepeatOutputs == {TextOf(Failed(<<Group(<<MsgA, MsgB, MsgA>>)>>))}

\* SpecBinder: an error that goes on in a message at any span within the bound
BinderMessages ==
    {RawMessage(f, l, c, el, ec, "d2") :
        f \in {"a.js", "b.js"}, l \in 1..MaxCoord, c \in 1..MaxCoord,
        el \in 1..MaxCoord, ec \in 1..MaxCoord}

\* SpecResolver: every payload of up to MaxGroups groups of 1..MaxMsgs messages
ResolverGroups == {Group(q) : q \in SeqsUpTo({MsgA, MsgB}, MaxMsgs) \ {<<>>}}
ResolverCalls ==
    {[output |-> Failed(errors), file |-> f] :
        errors \in SeqsUpTo(ResolverGroups, MaxGroups), f \in Files}

InitEditor ==
    /\ views = [f \in Files |-> IF f = "a.js" THEN LoadedView ELSE ClosedView]
    /\ sessions = <<>>
    /\ last_instance = None
    /\ barriers = <<>>
    /\ panel = None
    /\ nav = None

Init ==
    /\ lints = ScenarioOutputs \X ScenarioFiles
    /\ InitEditor
    /\ call = None /\ ret = None

InitBarrier ==
    /\ lints = BarrierOutputs \X {"a.js"}
    /\ InitEditor
    /\ call = None /\ ret = None

InitBinder ==
    /\ lints \in {{<<TextOf(Failed(<<Group(<<MsgA, m>>)>>)), "a.js">>} : m \in BinderMessages}
    /\ InitEditor
    /\ call = None /\ ret = None

InitRepeat ==
    /\ lints = RepeatOutputs \X {"a.js"}
    /\ InitEditor
    /\ call = None /\ ret = None

InitResolver ==
    /\ lints = {}
    /\ InitEditor
    /\ call \in {Some(c) : c \in ResolverCalls}
    /\ ret = None

\* a step of a run in which the linter runs at most cap times
Step(cap) ==
    \/ \E lint \in lints : Len(sessions) < cap /\ find_errors(lint[1], lint[2])
    \/ \E view \in Files : ViewLoaded(view)
    \/ \E s \in 1..Len(sessions) : \E k \in DOMAIN barriers[s] :
          \E i \in barriers[s][k].timers : PollTimer(s, k, i)
    \/ \E view \in Files : on_modified_async(view)
    \/ \E index \in -1..(MaxMsgs - 1) : on_select(index)

Next == Step(MaxSessions)
NextFew == Step(MaxLints)
NextResolver == RunGetError

Spec == Init /\ [][Next]_vars
SpecBarrier == InitBarrier /\ [][NextFew]_vars
SpecBinder == InitBinder /\ [][NextFew]_vars
SpecRepeat == InitRepeat /\ [][NextFew]_vars

\* the timer of message i of closure k of Session s is set and will find its
\* view not loading: ENABLED <<PollTimer(s, k, i)>>_vars
Due(s, k, i) ==
    /\ s \in 1..Len(sessions)
    /\ k \in DOMAIN barriers[s]
    /\ i \in barriers[s][k].timers
    /\ ~views[sessions[s].msgs[i].view].loading

\* The editor goes on loading the views that are loading, and it runs every
\* timer set with sublime.set_timeout_async.  A timer that finds its view
\* loading sets itself again and changes nothing; one that finds it loaded is
\* gone once it has run and is never set again, so that weak fairness of
\* PollTimer(s, k, i) is []<>~Due(s, k, i).
Fairness ==
    /\ WF_vars(\E view \in Files : ViewLoaded(view))
    /\ \A s \in 1..MaxLints : \A k \in {"show_report", "highlight"} :
           \A i \in 1..MaxMsgs : []<>~Due(s, k, i)

SpecLive == InitBarrier /\ [][NextFew]_vars /\ Fairness
SpecResolver == InitResolver /\ [][NextResolver]_vars

(***************************************************************************)
(* get_error: C1, C2                                                       *)
(***************************************************************************)
Min(S) == CHOOSE x \in S : \A y \in S : x <= y

\* the groups whose message at index 0 is in the file
EntryGroups(errors, file) ==
    {g \in 1..Len(errors) : errors[g].message[1].path = file}

\* the indices > 0 of the messages of a group that are in the file
ContextIndices(error, file) ==
    {idx \in 1..(Len(error.message) - 1) : error.message[idx + 1].path = file}

\* the groups that have a message at an index > 0 in the file
ContextGroups(errors, file) ==
    {g \in 1..Len(errors) : ContextIndices(errors[g], file) # {}}

\* C1: when some group has the triggering file at index 0, get_error returns the
\* first such group in payload order with index 0, also when an earlier group has
\* the file at an index > 0
C1_EntryErrorPriority ==
    ret # None =>
        LET errors == Val(call).output.errors
            file == Val(call).file
            entries == EntryGroups(errors, file)
        IN  entries # {} => Val(ret) = <<Some(errors[Min(entries)]), Some(0)>>

C1_Witness ==
    /\ ret # None
    /\ LET errors == Val(call).output.errors
           file == Val(call).file
       IN  /\ Len(errors) = 2
           /\ ContextIndices(errors[1], file) # {}
           /\ EntryGroups(errors, file) = {2}
           /\ Val(ret) = <<Some(errors[2]), Some(0)>>

\* C2: when no group has the triggering file at index 0 and some group has it at
\* an index > 0, get_error returns the first such group in payload order and the
\* smallest index > 0 of that group whose path is the file
C2_ContextFallback ==
    ret # None =>
        LET errors == Val(call).output.errors
            file == Val(call).file
            mentions == ContextGroups(errors, file)
        IN  (EntryGroups(errors, file) = {} /\ mentions # {}) =>
                Val(ret) = <<Some(errors[Min(mentions)]),
                             Some(Min(ContextIndices(errors[Min(mentions)], file)))>>

C2_Witness ==
    /\ ret # None
    /\ LET errors == Val(call).output.errors
           file == Val(call).file
       IN  /\ EntryGroups(errors, file) = {}
           /\ ContextGroups(errors, file) = {1, 2}
           /\ errors[1] # errors[2]
           /\ ContextIndices(errors[1], file) = {1, 2}
           /\ Val(ret) = <<Some(errors[1]), Some(1)>>

(***************************************************************************)
(* Sessions and highlight regions: C3, C4                                  *)
(***************************************************************************)
\* the Flow_error objects that are still there and have a message list
Live == {s \in 1..Len(sessions) : "msgs" \in DOMAIN sessions[s]}

\* the views the messages of a message list are bound to
ViewsOf(msgs) == {msgs[i].view : i \in 1..Len(msgs)}

\* the regions of a region list that session s rendered
RenderedBy(regions, s) == SelectSeq(regions, LAMBDA r : r.by = s)
NotRenderedBy(regions, s) == SelectSeq(regions, LAMBDA r : r.by # s)

\* C3: every highlight region in any view was rendered by the current Session
\* (Flow_error.last_instance); no region of a superseded Session exists
C3_OnlyCurrentSessionRegions ==
    \A v \in Files : \A i \in 1..Len(views[v].regions) :
        last_instance = Some(views[v].regions[i].by)

\* this step made a Flow_error and stored it in Flow_error.last_instance
NewSession ==
    /\ Len(sessions') = Len(sessions) + 1
    /\ last_instance' = Some(Len(sessions'))

\* the views bound to the messages of the Session that is current before the step
PrevViews ==
    IF last_instance # None /\ Val(last_instance) \in Live
    THEN ViewsOf(sessions[Val(last_instance)].msgs)
    ELSE {}

\* C4: a payload with passed = true makes a Session with an empty message list,
\* and when it has been made every view bound to a message of the previous
\* Session has no highlight region
C4_PassedClearsPrevious ==
    [][(/\ NewSession
        /\ "passed" \in DOMAIN sessions'[Len(sessions')].output
        /\ sessions'[Len(sessions')].output.passed)
       => /\ "msgs" \in DOMAIN sessions'[Len(sessions')]
          /\ sessions'[Len(sessions')].msgs = <<>>
          /\ \A v \in PrevViews : views'[v].regions = <<>>]_vars

C4_Witness ==
    /\ last_instance = Some(2)
    /\ sessions[2].output = [passed |-> TRUE]
    /\ sessions[2].msgs = <<>>
    /\ views["b.js"].open /\ ~views["b.js"].loading
    /\ \A v \in Files : views[v].regions = <<>>
    /\ sessions[1] = Collected

(***************************************************************************)
(* Readiness: C5, C6                                                       *)
(***************************************************************************)
\* the closures of on_view_ready that are still there, as <<session, kind>>
Closures == {c \in (1..Len(sessions)) \X {"show_report", "highlight"} :
                c[2] \in DOMAIN barriers[c[1]]}

\* C5: for a Session with N >= 1 messages, a call of Flow_error.on_view_ready
\* calls the callback once and not more, and has called it exactly when every
\* one of the N messages has had its view found not loading
C5_CountdownBarrier ==
    \A c \in Closures :
        LET closure == barriers[c[1]][c[2]]
            N == Len(sessions[c[1]].msgs)
        IN  N >= 1 =>
                /\ closure.called \in {0, 1}
                /\ closure.called = 1 <=> closure.seen = 1..N
                /\ closure.rest = N - Cardinality(closure.seen)

\* the view of c.js was found ready before the view of b.js by one closure of a
\* Session of three messages while the other closure has already called back
C5_Witness ==
    /\ last_instance = Some(1)
    /\ Len(sessions[1].msgs) = 3
    /\ barriers[1]["highlight"].called = 1
    /\ barriers[1]["highlight"].seen = {1, 2, 3}
    /\ barriers[1]["show_report"].called = 0
    /\ barriers[1]["show_report"].seen = {1, 3}

\* C6: no text position is computed and no text is read from a view that is
\* still loading: the rows of the report are built, and the regions rendered,
\* only when every view bound to a message of the Session has finished loading
C6_NothingReadWhileLoading ==
    /\ \A s \in Live : "show_report" \in DOMAIN barriers[s] =>
           \A i \in 1..Len(barriers[s]["show_report"].report) :
               LET code == barriers[s]["show_report"].report[i][1]
               IN  code[1].loaded /\ code[3].loaded
    /\ \A s \in Live : \A v \in Files :
           RenderedBy(views[v].regions, s) # <<>> =>
               \A u \in ViewsOf(sessions[s].msgs) : ~views[u].loading

(***************************************************************************)
(* Frames: C7, C8                                                          *)
(***************************************************************************)
\* C7: making a new Session erases the regions of exactly the views bound to
\* the messages of the previous Session, before the new Session renders: after
\* the step such a view holds only what the new Session rendered, and in every
\* other view the regions that were there are unchanged
C7_ReplacementFrame ==
    [][NewSession =>
          \A v \in Files :
              /\ v \in PrevViews =>
                    NotRenderedBy(views'[v].regions, Len(sessions')) = <<>>
              /\ v \notin PrevViews =>
                    NotRenderedBy(views'[v].regions, Len(sessions')) = views[v].regions
              /\ ("highlight" \in DOMAIN barriers'[Len(sessions')]
                    /\ barriers'[Len(sessions')]["highlight"].called = 1
                    /\ v \in ViewsOf(sessions'[Len(sessions')].msgs))
                 => RenderedBy(views'[v].regions, Len(sessions')) # <<>>]_vars

\* the third Session replaced a second one bound to a.js alone, which the panel
\* still refers to; b.js holds a region of the first
C7_Witness ==
    /\ last_instance = Some(3)
    /\ 2 \in Live
    /\ ViewsOf(sessions[2].msgs) = {"a.js"}
    /\ RenderedBy(views["b.js"].regions, 1) # <<>>
    /\ NotRenderedBy(views["a.js"].regions, 3) = <<>>
    /\ sessions[1] = Collected

\* C8: a buffer-modified signal for view V removes every region of V and leaves
\* unchanged the regions of every other view, Flow_error.last_instance, and the
\* message list and index of every Session
C8_ClearHookFrame ==
    [][\A v \in Files :
          on_modified_async(v) =>
              /\ views'[v].regions = <<>>
              /\ \A u \in Files \ {v} : views'[u] = views[u]
              /\ last_instance' = last_instance
              /\ sessions' = sessions]_vars

\* the current Session has rendered its two messages and a.js alone is empty
C8_Witness ==
    /\ last_instance # None
    /\ Val(last_instance) \in Live
    /\ ViewsOf(sessions[Val(last_instance)].msgs) = {"a.js", "b.js"}
    /\ barriers[Val(last_instance)]["highlight"].called = 1
    /\ views["a.js"].regions = <<>>
    /\ RenderedBy(views["b.js"].regions, Val(last_instance)) # <<>>

(***************************************************************************)
(* Coordinates: C9, C10                                                    *)
(***************************************************************************)
\* the raw messages of the outputs of flow that may be linted in this run
LintedMessages ==
    UNION {LET value == decode_value(lint[1]).value
           IN  UNION {{g.message[i] : i \in 1..Len(g.message)} :
                        g \in {value.errors[j] : j \in 1..Len(value.errors)}} :
           lint \in {l \in lints : /\ decode_value(l[1]).decodes
                                   /\ "errors" \in DOMAIN decode_value(l[1]).value}}

\* the raw messages a Session with messages was made from: error['message']
RawOf(s) == Val(get_error(sessions[s])[1]).message

\* C9: the start of a message is (line - 1, start - 1) of its raw message, in
\* every state, whatever was done with the message since it was made; and
\* Flow_msg.focus goes to such a start
C9_StartConvertedOnce ==
    /\ \A s \in Live : \A i \in 1..Len(sessions[s].msgs) :
           /\ sessions[s].msgs[i].line = RawOf(s)[i].line - 1
           /\ sessions[s].msgs[i].col = RawOf(s)[i].start - 1
    /\ nav # None =>
           \E raw \in LintedMessages :
               Val(nav) = [file |-> raw.path, line |-> raw.line - 1, col |-> raw.start - 1]

\* the report was shown, the regions rendered, a.js cleared by the hook and
\* the second message of the current Session just gone to
C9_Witness ==
    /\ last_instance # None
    /\ Val(last_instance) \in Live
    /\ Len(sessions[Val(last_instance)].msgs) = 2
    /\ barriers[Val(last_instance)]["show_report"].called = 1
    /\ barriers[Val(last_instance)]["highlight"].called = 1
    /\ views["a.js"].regions = <<>>
    /\ nav # None
    /\ sessions[Val(last_instance)].msgs[2].line = 1
    /\ sessions[Val(last_instance)].msgs[2].col = 1
    /\ Val(nav) = [file |-> "b.js", line |-> 1, col |-> 1]

\* C10 as claimed: the end of a message is (endline - 1, end - 1) of its raw
\* message and a rendered region ends there
C10_EndLikeStart ==
    /\ \A s \in Live : \A i \in 1..Len(sessions[s].msgs) :
           /\ sessions[s].msgs[i].line_end = RawOf(s)[i].endline - 1
           /\ sessions[s].msgs[i].col_end = RawOf(s)[i].end - 1
    /\ \A v \in Files : \A i \in 1..Len(views[v].regions) :
           \E raw \in LintedMessages :
               /\ raw.path = v
               /\ views[v].regions[i].a = <<raw.line - 1, raw.start - 1>>
               /\ views[v].regions[i].b = <<raw.endline - 1, raw.end - 1>>

\* C10 amended: the end line of a message is endline - 1 and its end column is
\* `end` itself, and a rendered region runs from (line - 1, start - 1) to
\* (endline - 1, end)
C10_EndColumnKept ==
    /\ \A s \in Live : \A i \in 1..Len(sessions[s].msgs) :
           /\ sessions[s].msgs[i].line_end = RawOf(s)[i].endline - 1
           /\ sessions[s].msgs[i].col_end = RawOf(s)[i].end
    /\ \A v \in Files : \A i \in 1..Len(views[v].regions) :
           \E raw \in LintedMessages :
               /\ raw.path = v
               /\ views[v].regions[i].a = <<raw.line - 1, raw.start - 1>>
               /\ views[v].regions[i].b = <<raw.endline - 1, raw.end>>

\* the region of a message of b.js from (2, 1) to (2, 2) is rendered
C10_Witness ==
    /\ last_instance # None
    /\ Val(last_instance) \in Live
    /\ Len(sessions[Val(last_instance)].msgs) = 2
    /\ RawOf(Val(last_instance))[2] = RawMessage("b.js", 2, 1, 2, 2, "d2")
    /\ views["b.js"].regions # <<>>
    /\ views["b.js"].regions[1].a = <<1, 0>>
    /\ views["b.js"].regions[1].b = <<1, 2>>

(***************************************************************************)
(* The report and the selection: C11, C12                                  *)
(***************************************************************************)
\* the description `row` is `descr` with the cross-file marker in front
Marked(row, descr) == row = CROSS_FILE \o descr /\ row # descr

\* C11: the report of a Session has one row per message, in the order of the
\* messages; the description of row i is the description of message i, with the
\* cross-file marker in front exactly when the file of message i is not the
\* triggering file; the quick panel shows these rows
C11_ReportRows ==
    /\ \A s \in Live : "show_report" \in DOMAIN barriers[s] =>
           LET rows == barriers[s]["show_report"].report
               msgs == sessions[s].msgs
           IN  /\ Len(rows) = Len(msgs)
               /\ \A i \in 1..Len(msgs) :
                      /\ rows[i][1][3].view = msgs[i].view
                      /\ rows[i][1][3].a = text_point(msgs[i].line, msgs[i].col)
                      /\ rows[i][1][3].b = text_point(msgs[i].line_end, msgs[i].col_end)
                      /\ Marked(rows[i][2], msgs[i].message)
                            <=> msgs[i].file # sessions[s].file
                      /\ ~Marked(rows[i][2], msgs[i].message)
                            => rows[i][2] = msgs[i].message
    /\ panel # None =>
           /\ Val(panel).session \in Live
           /\ Val(panel).items = barriers[Val(panel).session]["show_report"].report

\* the report of a lint of b.js is on screen: the row of the message in a.js
\* is marked, the row of the message in b.js is not
C11_Witness ==
    /\ panel # None
    /\ sessions[Val(panel).session].file = "b.js"
    /\ Len(Val(panel).items) = 2
    /\ Val(panel).items[1][2] = CROSS_FILE \o "d1"
    /\ Val(panel).items[2][2] = "d2"

\* the Flow_error objects of the state before the step are unchanged by it, or
\* gone because nothing refers to them any more
SessionsKept ==
    /\ Len(sessions') = Len(sessions)
    /\ \A s \in 1..Len(sessions) : sessions'[s] \in {sessions[s], Collected}
    /\ \A s \in 1..Len(sessions) : barriers'[s] \in {barriers[s], <<>>}

\* C12: on_select(i) with i >= 0 asks for one navigation, to the file, line and
\* col of message i of the Session whose report the panel shows, and changes
\* nothing else but the view it opens; on_select of a negative index asks for no
\* navigation and changes no view, no Session and not Flow_error.last_instance
C12_Selection ==
    [][\A index \in -1..(MaxMsgs - 1) :
          on_select(index) =>
              LET self == sessions[Val(panel).session]
              IN  /\ last_instance' = last_instance
                  /\ SessionsKept
                  /\ \A v \in Files : views'[v].regions = views[v].regions
                  /\ IF index >= 0
                     THEN LET msg == self.msgs[index + 1]
                          IN  /\ nav' = Some([file |-> msg.file, line |-> msg.line,
                                              col |-> msg.col])
                              /\ \A v \in Files \ {msg.file} : views'[v] = views[v]
                     ELSE nav' = None /\ views' = views]_vars

\* row 1 of the report of a superseded Session was selected: the navigation
\* goes to its second message, not to one of the current Session
C12_Witness ==
    /\ nav = Some([file |-> "b.js", line |-> 2, col |-> 0])
    /\ panel = None
    /\ last_instance # None
    /\ Val(last_instance) \in Live
    /\ sessions[Val(last_instance)].msgs = <<>>

(***************************************************************************)
(* Payloads that do not decode: C13                                        *)
(***************************************************************************)
\* C13: when the output of flow does not decode as JSON, find_errors ends
\* without an exception, and after it the current Session (if there is one) has
\* an empty message list, no quick panel is shown and no view has a region
C13_UndecodableEmptySession ==
    [][\A lint \in lints :
          (~decode_value(lint[1]).decodes /\ find_errors(lint[1], lint[2])) =>
              /\ last_instance' # None =>
                     /\ "msgs" \in DOMAIN sessions'[Val(last_instance')]
                     /\ sessions'[Val(last_instance')].msgs = <<>>
              /\ panel' = None
              /\ \A v \in Files : views'[v].regions = <<>>]_vars

(***************************************************************************)
(* Timers of a superseded Session: C14                                     *)
(***************************************************************************)
\* C14: a timer of a Session that is not Flow_error.last_instance any more
\* changes the regions of views only: the quick panel stays as it is (no report
\* is shown, no on_select of the superseded Session is put on screen), and so
\* do Flow_error.last_instance and the message list of every Session
C14_StaleCallbacksHarmless ==
    [][\A s \in 1..Len(sessions) : \A k \in DOMAIN barriers[s] :
          \A i \in barriers[s][k].timers :
              (last_instance # Some(s) /\ PollTimer(s, k, i)) =>
                  /\ panel' = panel
                  /\ last_instance' = last_instance
                  /\ \A x \in 1..Len(sessions) : sessions'[x] \in {sessions[x], Collected}]_vars

(***************************************************************************)
(* The scope of the clear hook: C15                                        *)
(***************************************************************************)
\* C15: a buffer-modified signal for a view whose scope at position 0 does not
\* have source.js leaves the regions of the view as they are
C15_ClearHookRouting ==
    [][\A v \in Files :
          (on_modified_async(v) /\ ~is_enabled(v)) =>
              views'[v].regions = views[v].regions]_vars

(***************************************************************************)
(* A Session without messages: C16                                         *)
(***************************************************************************)
\* the payload of Session s has passed = true, or has the triggering file in no
\* message of any group
EmptyResult(s) ==
    \/ sessions[s].output.passed
    \/ LET errors == sessions[s].output.errors
       IN  \A g \in 1..Len(errors) : \A i \in 1..Len(errors[g].message) :
               errors[g].message[i].path # sessions[s].file

\* C16: a Session whose payload has passed = true or does not mention the
\* triggering file has an empty message list, and as long as it is there no
\* callback of it has run and none is pending: the quick panel is not its
\* report and no region of any view was rendered by it
C16_EmptyShowsNothing ==
    \A s \in Live :
        EmptyResult(s) =>
            /\ sessions[s].msgs = <<>>
            /\ panel = None \/ Val(panel).session # s
            /\ \A v \in Files : RenderedBy(views[v].regions, s) = <<>>
            /\ \A k \in DOMAIN barriers[s] :
                   barriers[s][k].called = 0 /\ barriers[s][k].timers = {}

\* a lint of b.js with an error that is in a.js alone came after a Session
\* whose report and region are still there; show_report and highlight were
\* both called on the new Session
C16_Witness ==
    /\ last_instance # None
    /\ Val(last_instance) \in Live
    /\ sessions[Val(last_instance)].file = "b.js"
    /\ ~sessions[Val(last_instance)].output.passed
    /\ sessions[Val(last_instance)].output.errors # <<>>
    /\ sessions[Val(last_instance)].msgs = <<>>
    /\ DOMAIN barriers[Val(last_instance)] = {"show_report", "highlight"}
    /\ panel # None

(***************************************************************************)
(* Payloads of another shape: C18                                          *)
(***************************************************************************)
\* C18: Flow_error.last_instance never holds an object whose constructor
\* raised (one without msgs, on which clear() raises in every later
\* constructor), so a payload of the expected shape always makes a Session
C18_NoPoisonedSlot ==
    last_instance # None => "msgs" \in DOMAIN sessions[Val(last_instance)]

(***************************************************************************)
(* The message list: C19, C20                                              *)
(***************************************************************************)
\* C19: a message list that is not empty is made of the messages of the group
\* get_error selected, a group of the payload, one by one in their order; the
\* index is a position of the list, the message there is in the triggering
\* file, and the quick panel is opened with that index selected
C19_DefaultSelection ==
    /\ \A s \in Live : sessions[s].msgs # <<>> =>
           LET self == sessions[s]
               msgs == self.msgs
               errors == self.output.errors
           IN  /\ \E g \in 1..Len(errors) : errors[g].message = RawOf(s)
               /\ Len(msgs) = Len(RawOf(s))
               /\ \A i \in 1..Len(msgs) :
                      /\ msgs[i].file = RawOf(s)[i].path
                      /\ msgs[i].message = RawOf(s)[i].descr
                      /\ msgs[i].line = RawOf(s)[i].line - 1
                      /\ msgs[i].col = RawOf(s)[i].start - 1
               /\ "index" \in DOMAIN self
               /\ self.index # None
               /\ Val(self.index) \in 0..(Len(msgs) - 1)
               /\ msgs[Val(self.index) + 1].file = self.file
    /\ panel # None =>
           Val(panel).selected_index = sessions[Val(panel).session].index

\* the report of a lint of b.js is on screen with its second row selected
C19_Witness ==
    /\ panel # None
    /\ last_instance = Some(Val(panel).session)
    /\ sessions[Val(panel).session].file = "b.js"
    /\ Len(sessions[Val(panel).session].msgs) = 2
    /\ sessions[Val(panel).session].index = Some(1)
    /\ Val(panel).selected_index = Some(1)

\* C20: no message list has the same message (path, span and description) at
\* two positions, so no report has two rows and no view two regions for one
\* message of a Session
C20_NoRepeatedMessage ==
    /\ \A s \in Live : \A i, j \in 1..Len(sessions[s].msgs) :
           i # j => sessions[s].msgs[i] # sessions[s].msgs[j]
    /\ \A v \in Files : \A i, j \in 1..Len(views[v].regions) :
           i # j => views[v].regions[i] # views[v].regions[j]
    /\ panel # None => \A i, j \in 1..Len(Val(panel).items) :
           i # j => Val(panel).items[i] # Val(panel).items[j]

(***************************************************************************)
(* Liveness of the readiness wait: C17                                     *)
(***************************************************************************)
\* the regions Session s renders in view v: one per message bound to v, in the
\* order of the messages
RegionsFor(msgs, s, v) ==
    LET RECURSIVE From(_)
        From(p) ==
            IF p > Len(msgs) THEN <<>>
            ELSE IF msgs[p].view = v
                 THEN <<[a |-> region(msgs[p]).a, b |-> region(msgs[p]).b, by |-> s]>>
                      \o From(p + 1)
                 ELSE From(p + 1)
    IN  From(1)

\* closure k of Session s, which has messages, is waiting or has called back
Armed(s, k) ==
    /\ s \in Live
    /\ sessions[s].msgs # <<>>
    /\ k \in DOMAIN barriers[s]

\* closure k of Session s has called back; a Session that is gone has no timer
\* left (WaitNoShortcut: it had called back before it went)
Done(s, k) ==
    /\ s \in 1..Len(sessions)
    /\ \/ sessions[s] = Collected
       \/ k \in DOMAIN barriers[s] /\ barriers[s][k].called = 1

\* while the view of some message of a Session is loading, neither callback of
\* the Session has run and the timer of that message is set: the report of the
\* Session is not on screen and no region of any view was rendered by it
WaitWhileLoading ==
    \A s \in Live : \A k \in DOMAIN barriers[s] : \A i \in 1..Len(sessions[s].msgs) :
        views[sessions[s].msgs[i].view].loading =>
            /\ barriers[s][k].called = 0
            /\ i \in barriers[s][k].timers
            /\ panel = None \/ Val(panel).session # s
            /\ \A v \in Files : RenderedBy(views[v].regions, s) = <<>>

\* closure k of Session s calls back in this step
CallsBack(s, k) ==
    /\ s \in 1..Len(sessions')
    /\ k \in DOMAIN barriers'[s]
    /\ barriers'[s][k].called = 1
    /\ s \in 1..Len(sessions) /\ k \in DOMAIN barriers[s] => barriers[s][k].called = 0

\* the callbacks run once and do what they are for: the step in which the
\* callback of show_report runs puts the report of the Session on screen, the
\* step in which the callback of highlight runs leaves in every view one region
\* per message bound to it; and a Session goes only after both
WaitNoShortcut ==
    /\ \A s \in 1..Len(sessions') :
           /\ CallsBack(s, "show_report") =>
                  /\ panel' # None
                  /\ Val(panel').session = s
                  /\ Val(panel').items = barriers'[s]["show_report"].report
           /\ CallsBack(s, "highlight") =>
                  \A v \in Files :
                      RenderedBy(views'[v].regions, s) = RegionsFor(sessions'[s].msgs, s, v)
    /\ \A s \in Live :
           (sessions[s].msgs # <<>> /\ sessions'[s] = Collected) =>
               /\ barriers[s]["show_report"].called = 1
               /\ \/ barriers[s]["highlight"].called = 1
                  \/ \A v \in Files :
                         RenderedBy(views'[v].regions, s) = RegionsFor(sessions[s].msgs, s, v)
    /\ \A s \in Live : \A k \in DOMAIN barriers[s] :
           (s \in Live' /\ barriers[s][k].called = 1) => barriers'[s][k].called = 1

\* C17: when every view that is loading finishes loading and every timer is run,
\* each of the two callbacks of a Session with messages runs in the end, and
\* runs once: the report is shown and one region per message is appended to the
\* view of the message; as long as the view of some message is loading its timer
\* stays set and neither the report nor a region of the Session is there
C17_ReadinessLiveness ==
    /\ \A s \in 1..MaxLints : \A k \in {"show_report", "highlight"} :
           Armed(s, k) ~> Done(s, k)
    /\ []WaitWhileLoading
    /\ [][WaitNoShortcut]_vars

\* c.js was found loaded before b.js; now all three views have loaded and both
\* callbacks of the Session have run
C17_Witness ==
    /\ last_instance = Some(1)
    /\ Len(sessions[1].msgs) = 3
    /\ \A v \in Files : ~views[v].loading
    /\ barriers[1]["show_report"].called = 1
    /\ barriers[1]["highlight"].called = 1
    /\ panel # None /\ Val(panel).session = 1
    /\ \A v \in Files : views[v].regions = RegionsFor(sessions[1].msgs, 1, v)

====
